---- MODULE Spec2Model ----
(***************************************************************************)
(* StACSOS kernel: the buddy page allocator (page-allocator-buddy.cpp/.h). *)
(*                                                                         *)
(* The allocator's data is the array of free-list heads free_list_ and the *)
(* next_free word stored in the first bytes of every page frame.  Each     *)
(* public call (insert_free_pages, allocate_pages, free_pages) is one      *)
(* action that runs the whole handler, every private helper included.      *)
(* A failed assert halts the kernel: the heap is left as it was when the   *)
(* assertion was evaluated and no further call is made.                    *)
(*                                                                         *)
(* The round-robin scheduler (sched/alg/rr.cpp) is modelled next to it:    *)
(* its run queue and its current-task slot, with one action for each of    *)
(* add_to_runqueue, remove_from_runqueue and select_next_task.             *)
(***************************************************************************)
EXTENDS Integers, Sequences, FiniteSets, TLC

\* ---------------------------------------------------------------- bounds
\* LastOrder is a constant of the build, 16 in the kernel
\* (page-allocator-buddy.h:36).  The model runs the same code built with a
\* smaller largest order: this one under arbitrary calls,
LastOrderCalls == 2
\* and this one for the first insertion at boot, where a range of ten pages
\* is cut by the two sweeps of insert_free_pages as it is in the kernel.
LastOrderBoot == 3
\* Page frames the callers of the allocator use: PFNs 0 .. NumPages-1.
NumPages == 5
\* Page frames of the machine: PFNs 0 .. MemPages-1.  The boot-time insertion
\* of a range may lie anywhere in them.
MemPages == 14
\* Tasks (tcb objects) the scheduler is given: 1 .. NumTasks.
NumTasks == 3

\* ------------------------------------------------------------- constants
\* static const int LastOrder: fixed when the allocator is built, never written
VARIABLE LastOrder

nullptr == -1

Pages == 0 .. (NumPages - 1)
Frames == 0 .. (MemPages - 1)
Tasks == 1 .. NumTasks
\* select_next_task calls counted in a rotation: two rounds and one more
MaxSelects == 2 * NumTasks + 1
\* Under arbitrary calls add_to_runqueue is called while the run queue is
\* shorter than this: with the running task the scheduler holds NumTasks entries.
MaxQueue == NumTasks - 1
Orders == 0 .. LastOrder

\* ------------------------------------------------------- bit arithmetic
\* a & b on unsigned integers
RECURSIVE BitAnd(_, _)
BitAnd(a, b) ==
    IF a = 0 \/ b = 0 THEN 0
    ELSE (IF a % 2 = 1 /\ b % 2 = 1 THEN 1 ELSE 0) + 2 * BitAnd(a \div 2, b \div 2)

\* a ^ b on unsigned integers
RECURSIVE BitXor(_, _)
BitXor(a, b) ==
    IF a = 0 THEN b
    ELSE IF b = 0 THEN a
    ELSE (IF a % 2 = b % 2 THEN 0 ELSE 1) + 2 * BitXor(a \div 2, b \div 2)

\* 1 << order
pages_per_block(order) == 2 ^ order

\* !(pfn & (pages_per_block(order) - 1))
block_aligned(order, pfn) == BitAnd(pfn, pages_per_block(order) - 1) = 0

\* page::get_from_pfn(buddy.pfn() ^ pages_per_block(order))
get_buddy(order, buddy) == BitXor(buddy, pages_per_block(order))

\* ------------------------------------------------------------------ heap
\* A heap value h is the allocator's memory during a call:
\*   h.fl      free_list_[order], the head page of each order or nullptr
\*   h.nf      the next_free word in the body of each page frame
\*   h.halted  the kernel has stopped: an assertion has failed, or a read
\*             through a null pointer has faulted (h.failed = "fault")
\*   h.failed  the assertion that failed: "order" (an order out of range),
\*             "block_aligned", "get_slot" (the block is already listed) or
\*             "get_candidate_slot" (the block is not listed); "none" otherwise
EmptyHeap ==
    [fl |-> [o \in Orders |-> nullptr],
     nf |-> [p \in Frames |-> nullptr],
     halted |-> FALSE,
     failed |-> "none"]

\* a failed assert(...): the kernel stops, memory stays as it is
Halt(h, what) == [h EXCEPT !.halted = TRUE, !.failed = what]

\* A slot is a page** : the address of free_list_[order] or of a page's next_free
HeadSlot(order) == [kind |-> "head", at |-> order]
NextSlot(page) == [kind |-> "next", at |-> page]

\* page*& get_next_free(page*)
get_next_free(h, page) == h.nf[page]

\* *slot
Deref(h, slot) == IF slot.kind = "head" THEN h.fl[slot.at] ELSE get_next_free(h, slot.at)

\* *slot = value
Store(h, slot, value) ==
    IF slot.kind = "head" THEN [h EXCEPT !.fl[slot.at] = value]
    ELSE [h EXCEPT !.nf[slot.at] = value]

\* get_next_free(page) = value
set_next_free(h, page, value) == [h EXCEPT !.nf[page] = value]

\* ---------------------------------------------------------- list helpers
\* get_slot without its loop: every block goes to the head of its list
get_slot_walk_head(h, slot, target) == slot

\* the loop of get_slot: while (*slot && *slot < target) slot = &next_free(*slot)
RECURSIVE get_slot_walk(_, _, _)
get_slot_walk(h, slot, target) ==
    IF Deref(h, slot) # nullptr /\ Deref(h, slot) < target
    THEN get_slot_walk(h, NextSlot(Deref(h, slot)), target)
    ELSE slot

\* get_slot without the assertion that block_start is aligned to the order
get_slot_unaligned(h, order, block_start) ==
    IF ~(order >= 0 /\ order <= LastOrder) THEN [failed |-> "order", slot |-> HeadSlot(0)]
    ELSE LET slot == get_slot_walk(h, HeadSlot(order), block_start)
         IN  [failed |-> IF Deref(h, slot) # block_start THEN "none" ELSE "get_slot",
              slot |-> slot]

\* get_slot without the assertion that the slot does not point at block_start
get_slot_twice(h, order, block_start) ==
    IF ~(order >= 0 /\ order <= LastOrder) THEN [failed |-> "order", slot |-> HeadSlot(0)]
    ELSE IF ~block_aligned(order, block_start)
    THEN [failed |-> "block_aligned", slot |-> HeadSlot(order)]
    ELSE [failed |-> "none", slot |-> get_slot_walk(h, HeadSlot(order), block_start)]

\* get_slot: the pointer that should point at block_start once it is inserted.
\* failed names the assertion that fails, "none" when all three hold.
get_slot(h, order, block_start) ==
    IF ~(order >= 0 /\ order <= LastOrder) THEN [failed |-> "order", slot |-> HeadSlot(0)]
    ELSE IF ~block_aligned(order, block_start)
    THEN [failed |-> "block_aligned", slot |-> HeadSlot(order)]
    ELSE LET slot == get_slot_walk(h, HeadSlot(order), block_start)
         IN  [failed |-> IF Deref(h, slot) # block_start THEN "none" ELSE "get_slot",
              slot |-> slot]

\* the loop of get_candidate_slot: while (*slot && *slot != target) ...
RECURSIVE get_candidate_slot_walk(_, _, _)
get_candidate_slot_walk(h, slot, target) ==
    IF Deref(h, slot) # nullptr /\ Deref(h, slot) # target
    THEN get_candidate_slot_walk(h, NextSlot(Deref(h, slot)), target)
    ELSE slot

\* get_candidate_slot: the pointer that points at block_start.
\* failed names the assertion that fails, "none" when all three hold.
get_candidate_slot(h, order, block_start) ==
    IF ~(order >= 0 /\ order <= LastOrder) THEN [failed |-> "order", slot |-> HeadSlot(0)]
    ELSE IF ~block_aligned(order, block_start)
    THEN [failed |-> "block_aligned", slot |-> HeadSlot(order)]
    ELSE LET slot == get_candidate_slot_walk(h, HeadSlot(order), block_start)
         IN  [failed |-> IF Deref(h, slot) = block_start THEN "none"
                         ELSE "get_candidate_slot",
              slot |-> slot]

insert_free_block(h, order, block_start) ==
    IF h.halted THEN h
    ELSE LET r == get_slot(h, order, block_start)
         IN  IF r.failed # "none" THEN Halt(h, r.failed)
             ELSE LET h1 == set_next_free(h, block_start, Deref(h, r.slot))
                  IN  Store(h1, r.slot, block_start)

remove_free_block(h, order, block_start) ==
    IF h.halted THEN h
    ELSE LET r == get_candidate_slot(h, order, block_start)
         IN  IF r.failed # "none" THEN Halt(h, r.failed)
             ELSE LET h1 == Store(h, r.slot, get_next_free(h, block_start))
                  IN  set_next_free(h1, block_start, nullptr)

insert_buddies(h, order, first_block, second_block) ==
    IF h.halted THEN h
    ELSE LET r == get_slot(h, order, first_block)
         IN  IF r.failed # "none" THEN Halt(h, r.failed)
             ELSE IF ~block_aligned(order, second_block) THEN Halt(h, "block_aligned")
             ELSE LET h1 == set_next_free(h, first_block, second_block)
                      h2 == set_next_free(h1, second_block, Deref(h1, r.slot))
                  IN  Store(h2, r.slot, first_block)

\* What remove_buddies can do once get_next_free(&block_start) is nullptr:
\* second_block->pfn() and get_next_free(second_block) then go through a null
\* page*, which is undefined. The number pfn() yields may fail the alignment
\* assertion (never at order 0, where every number is aligned); the read of
\* the null block's first word may fault, which stops the kernel with no
\* assertion failed and the heap as it was; or the read yields some word,
\* which goes into the candidate slot, and the nullptr written back lands in
\* some page's first word or outside the pages.
remove_null_buddy(h, order, block_start, slot) ==
    LET Words == Frames \cup {nullptr}
    IN  {Halt(h, "block_aligned") : pfn \in {p \in Frames : ~block_aligned(order, p)}}
        \cup {Halt(h, "fault")}
        \cup {LET h1 == Store(h, slot, w)
                  h2 == IF t = nullptr THEN h1 ELSE set_next_free(h1, t, nullptr)
              IN  set_next_free(h2, block_start, nullptr) : w \in Words, t \in Words}

\* remove_buddies: the set of heaps the call can leave, one heap unless the
\* call runs into undefined behaviour
remove_buddies(h, order, block_start) ==
    IF h.halted THEN {h}
    ELSE LET r == get_candidate_slot(h, order, block_start)
         IN  IF r.failed # "none" THEN {Halt(h, r.failed)}
             ELSE LET second_block == get_next_free(h, block_start)
                  IN  IF second_block = nullptr
                      THEN remove_null_buddy(h, order, block_start, r.slot)
                      ELSE IF ~block_aligned(order, second_block)
                      THEN {Halt(h, "block_aligned")}
                      ELSE LET h1 == Store(h, r.slot, get_next_free(h, second_block))
                               h2 == set_next_free(h1, second_block, nullptr)
                           IN  {set_next_free(h2, block_start, nullptr)}

\* the heap left by a call that has one outcome
Only(outcomes) == CHOOSE h \in outcomes : TRUE

\* -------------------------------------------------------- merge and split
\* merge_buddies that never finds the buddy free
merge_buddies_never(h, order, buddy) == [h |-> h, ret |-> nullptr]

\* merge_buddies that puts the merged block back into the order of its halves
merge_buddies_same_order(h, order, buddy) ==
    IF h.halted THEN [h |-> h, ret |-> nullptr]
    ELSE IF ~(order >= 0 /\ order < LastOrder) THEN [h |-> Halt(h, "order"), ret |-> nullptr]
    ELSE LET buddy2 == get_buddy(order, buddy)
             first  == IF buddy < buddy2 THEN buddy ELSE buddy2
             second == IF buddy < buddy2 THEN buddy2 ELSE buddy
         IN  IF get_next_free(h, first) # second THEN [h |-> h, ret |-> nullptr]
             ELSE LET h1 == Only(remove_buddies(h, order, first))
                      h2 == insert_free_block(h1, order, first)
                  IN  [h |-> h2, ret |-> nullptr]

\* merge_buddies: [h, ret]; ret is the merged block or nullptr. remove_buddies
\* is called with get_next_free(first) == second, a page, so it has one outcome.
merge_buddies(h, order, buddy) ==
    IF h.halted THEN [h |-> h, ret |-> nullptr]
    ELSE IF ~(order >= 0 /\ order < LastOrder) THEN [h |-> Halt(h, "order"), ret |-> nullptr]
    ELSE LET buddy2 == get_buddy(order, buddy)
             first  == IF buddy < buddy2 THEN buddy ELSE buddy2
             second == IF buddy < buddy2 THEN buddy2 ELSE buddy
         IN  IF get_next_free(h, first) # second THEN [h |-> h, ret |-> nullptr]
             ELSE LET h1 == Only(remove_buddies(h, order, first))
                      h2 == insert_free_block(h1, order + 1, first)
                  IN  [h |-> h2, ret |-> IF h2.halted THEN nullptr ELSE first]

\* iterative_merge that merges once and does not go on to the next order
iterative_merge_once(h, order, buddy_ptr) ==
    IF h.halted THEN h
    ELSE IF buddy_ptr # nullptr /\ order < LastOrder
    THEN merge_buddies(h, order, buddy_ptr).h
    ELSE h

\* iterative_merge: while (buddy_ptr && order < LastOrder) ...
RECURSIVE iterative_merge(_, _, _)
iterative_merge(h, order, buddy_ptr) ==
    IF h.halted THEN h
    ELSE IF buddy_ptr # nullptr /\ order < LastOrder
    THEN LET m == merge_buddies(h, order, buddy_ptr)
         IN  iterative_merge(m.h, order + 1, m.ret)
    ELSE h

\* split_block that leaves the block it halves in the list of its order
split_block_keep_parent(h, order, block_start) ==
    IF h.halted THEN h
    ELSE IF ~(order > 0 /\ order <= LastOrder) THEN Halt(h, "order")
    ELSE insert_buddies(h, order - 1, block_start,
                        block_start + pages_per_block(order - 1))

split_block(h, order, block_start) ==
    IF h.halted THEN h
    ELSE IF ~(order > 0 /\ order <= LastOrder) THEN Halt(h, "order")
    ELSE LET next_block == block_start + pages_per_block(order - 1)
             h1 == remove_free_block(h, order, block_start)
         IN  insert_buddies(h1, order - 1, block_start, next_block)

\* the upward scan giving up at once: no order above the requested one is tried
split_scan_none(h, order) == LastOrder + 1

\* the first loop of iterative_split: the lowest non-empty order from `order` up
RECURSIVE split_scan(_, _)
split_scan(h, order) ==
    IF order <= LastOrder /\ h.fl[order] = nullptr THEN split_scan(h, order + 1) ELSE order

\* the second loop of iterative_split: while (order > target_order) split_block
RECURSIVE split_down(_, _, _)
split_down(h, order, target_order) ==
    IF h.halted THEN h
    ELSE IF order > target_order
    THEN split_down(split_block(h, order, h.fl[order]), order - 1, target_order)
    ELSE h

\* iterative_split that hands out the upper half of the last block it halved
iterative_split_upper_half(h, target_order) ==
    IF ~(target_order >= 0 /\ target_order <= LastOrder)
    THEN [h |-> Halt(h, "order"), ret |-> nullptr]
    ELSE IF h.fl[target_order] # nullptr THEN [h |-> h, ret |-> h.fl[target_order]]
    ELSE LET order == split_scan(h, target_order + 1)
         IN  IF order > LastOrder THEN [h |-> h, ret |-> nullptr]
             ELSE LET h1 == split_down(h, order, target_order)
                  IN  [h |-> h1, ret |-> IF h1.halted THEN nullptr
                                         ELSE get_next_free(h1, h1.fl[target_order])]

\* iterative_split: [h, ret]
iterative_split(h, target_order) ==
    IF ~(target_order >= 0 /\ target_order <= LastOrder)
    THEN [h |-> Halt(h, "order"), ret |-> nullptr]
    ELSE IF h.fl[target_order] # nullptr THEN [h |-> h, ret |-> h.fl[target_order]]
    ELSE LET order == split_scan(h, target_order + 1)
         IN  IF order > LastOrder THEN [h |-> h, ret |-> nullptr]
             ELSE LET h1 == split_down(h, order, target_order)
                  IN  [h |-> h1, ret |-> IF h1.halted THEN nullptr ELSE h1.fl[target_order]]

\* ------------------------------------------------------ public functions
\* memops::pzero over the block: every word of its pages becomes 0
pzero(h, block_start, order) ==
    [h EXCEPT !.nf = [p \in Frames |->
        IF p >= block_start /\ p < block_start + pages_per_block(order)
        THEN nullptr ELSE h.nf[p]]]

\* allocate_pages that returns the chosen block and leaves it in its free list
allocate_pages_keep(h, order, zero) ==
    IF order < 0 \/ order > LastOrder THEN [h |-> h, ret |-> nullptr]
    ELSE iterative_split(h, order)

\* allocate_pages without the range check on order
allocate_pages_unchecked(h, order, zero) ==
    LET s == iterative_split(h, order)
    IN  IF s.h.halted \/ s.ret = nullptr THEN [h |-> s.h, ret |-> nullptr]
        ELSE LET h1 == remove_free_block(s.h, order, s.ret)
                 h2 == IF zero /\ ~h1.halted THEN pzero(h1, s.ret, order) ELSE h1
             IN  [h |-> h2, ret |-> IF h2.halted THEN nullptr ELSE s.ret]

\* allocate_pages(order, flags): [h, ret]; zero is the page_allocation_flags::zero bit
allocate_pages(h, order, zero) ==
    IF order < 0 \/ order > LastOrder THEN [h |-> h, ret |-> nullptr]
    ELSE LET s == iterative_split(h, order)
         IN  IF s.h.halted \/ s.ret = nullptr THEN [h |-> s.h, ret |-> nullptr]
             ELSE LET h1 == remove_free_block(s.h, order, s.ret)
                      h2 == IF zero /\ ~h1.halted THEN pzero(h1, s.ret, order) ELSE h1
                  IN  [h |-> h2, ret |-> IF h2.halted THEN nullptr ELSE s.ret]

\* free_pages(block_start, order)
free_pages(h, block_start, order) ==
    IF h.halted THEN h
    ELSE IF ~(order >= 0 /\ order <= LastOrder) THEN Halt(h, "order")
    ELSE iterative_merge(insert_free_block(h, order, block_start), order, block_start)

\* the first loop testing the bits of page_count where it should test those of pfn
RECURSIVE low_sweep_count_bits(_)
low_sweep_count_bits(c) ==
    IF ~c.h.halted /\ c.page_count >= c.lsb /\ c.order < LastOrder
    THEN IF BitAnd(c.lsb, c.page_count) # 0
         THEN low_sweep_count_bits([h |-> free_pages(c.h, c.pfn, c.order),
                         order |-> c.order + 1, lsb |-> c.lsb * 2,
                         pfn |-> c.pfn + c.lsb, page_count |-> c.page_count - c.lsb])
         ELSE low_sweep_count_bits([c EXCEPT !.order = c.order + 1, !.lsb = c.lsb * 2])
    ELSE c

\* insert_free_pages, first loop: [h, order, lsb, pfn, page_count]
RECURSIVE low_sweep(_)
low_sweep(c) ==
    IF ~c.h.halted /\ c.page_count >= c.lsb /\ c.order < LastOrder
    THEN IF BitAnd(c.lsb, c.pfn) # 0
         THEN low_sweep([h |-> free_pages(c.h, c.pfn, c.order),
                         order |-> c.order + 1, lsb |-> c.lsb * 2,
                         pfn |-> c.pfn + c.lsb, page_count |-> c.page_count - c.lsb])
         ELSE low_sweep([c EXCEPT !.order = c.order + 1, !.lsb = c.lsb * 2])
    ELSE c

\* insert_free_pages, second loop: while (page_count > max_block_size)
RECURSIVE cap_loop(_)
cap_loop(c) ==
    LET max_block_size == 2 ^ LastOrder
    IN  IF ~c.h.halted /\ c.page_count > max_block_size
        THEN cap_loop([c EXCEPT !.h = insert_free_block(c.h, LastOrder, c.pfn),
                                !.page_count = c.page_count - max_block_size,
                                !.pfn = c.pfn + max_block_size])
        ELSE c

\* high_sweep that lowers the order after it has freed the block, not before
RECURSIVE high_sweep_order_late(_)
high_sweep_order_late(c) ==
    IF ~c.h.halted /\ c.lsb > 0
    THEN LET lsb == c.lsb \div 2
             order == c.order - 1
         IN  IF BitAnd(lsb, c.page_count) # 0
             THEN high_sweep_order_late([c EXCEPT !.h = free_pages(c.h, c.pfn, c.order),
                                                  !.lsb = lsb, !.order = order,
                                                  !.pfn = c.pfn + lsb])
             ELSE high_sweep_order_late([c EXCEPT !.lsb = lsb, !.order = order])
    ELSE c

\* insert_free_pages, third loop: while (lsb > 0) { lsb >>= 1; order--; ... }
RECURSIVE high_sweep(_)
high_sweep(c) ==
    IF ~c.h.halted /\ c.lsb > 0
    THEN LET lsb == c.lsb \div 2
             order == c.order - 1
         IN  IF BitAnd(lsb, c.page_count) # 0
             THEN high_sweep([c EXCEPT !.h = free_pages(c.h, c.pfn, order),
                                       !.lsb = lsb, !.order = order,
                                       !.pfn = c.pfn + lsb])
             ELSE high_sweep([c EXCEPT !.lsb = lsb, !.order = order])
    ELSE c

\* insert_free_pages(range_start, page_count).  The overflow assertion
\* pfn < UNIT64_MAX - page_count holds for every range of the model.
insert_free_pages(h, range_start, page_count) ==
    high_sweep(cap_loop(low_sweep(
        [h |-> h, order |-> 0, lsb |-> 1, pfn |-> range_start,
         page_count |-> page_count]))).h

\* ------------------------------------------------------------- scheduler
\* The scheduler's data: s = [runqueue, current_task], current_task =
\* [task, to_remove].  The run queue is a list of tcb pointers.
EmptySched ==
    [runqueue |-> <<>>, current_task |-> [task |-> nullptr, to_remove |-> FALSE]]

\* runqueue.enqueue(t): t goes to the tail
enqueue(q, t) == Append(q, t)

\* runqueue.pop(): the head leaves the queue and is returned
pop(q) == [q |-> Tail(q), ret |-> Head(q)]

\* runqueue.remove(t): the first t in the queue leaves it
RECURSIVE remove(_, _)
remove(q, t) ==
    IF q = <<>> THEN <<>>
    ELSE IF Head(q) = t THEN Tail(q)
    ELSE <<Head(q)>> \o remove(Tail(q), t)

\* runqueue.empty()
empty(q) == q = <<>>

\* add_to_runqueue that puts the task at the head of the queue
add_to_runqueue_front(s, tcb) == [s EXCEPT !.runqueue = <<tcb>> \o s.runqueue]

add_to_runqueue(s, tcb) == [s EXCEPT !.runqueue = enqueue(s.runqueue, tcb)]

\* remove_from_runqueue that sets to_remove whichever task it is given
remove_from_runqueue_flag_only(s, tcb) ==
    [s EXCEPT !.current_task.to_remove = TRUE]

remove_from_runqueue(s, tcb) ==
    IF tcb = s.current_task.task
    THEN [s EXCEPT !.current_task.to_remove = TRUE]
    ELSE [s EXCEPT !.runqueue = remove(s.runqueue, tcb)]

\* select_next_task that never puts the running task back in the queue
select_next_task_no_requeue(s) ==
    IF empty(s.runqueue)
    THEN LET c == IF s.current_task.to_remove
                  THEN [task |-> nullptr, to_remove |-> FALSE]
                  ELSE s.current_task
         IN  [s |-> [s EXCEPT !.current_task = c], ret |-> c.task]
    ELSE LET p == pop(s.runqueue)
         IN  [s |-> [runqueue |-> p.q,
                     current_task |-> [task |-> p.ret, to_remove |-> FALSE]],
              ret |-> p.ret]

\* select_next_task that returns the running task from an empty queue without
\* looking at to_remove
select_next_task_keep_last(s) ==
    IF empty(s.runqueue)
    THEN [s |-> s, ret |-> s.current_task.task]
    ELSE LET q == IF ~s.current_task.to_remove /\ s.current_task.task # nullptr
                  THEN enqueue(s.runqueue, s.current_task.task)
                  ELSE s.runqueue
             p == pop(q)
         IN  [s |-> [runqueue |-> p.q,
                     current_task |-> [task |-> p.ret, to_remove |-> FALSE]],
              ret |-> p.ret]

\* select_next_task that puts the running task at the head of the queue
select_next_task_requeue_head(s) ==
    IF empty(s.runqueue)
    THEN LET c == IF s.current_task.to_remove
                  THEN [task |-> nullptr, to_remove |-> FALSE]
                  ELSE s.current_task
         IN  [s |-> [s EXCEPT !.current_task = c], ret |-> c.task]
    ELSE LET q == IF ~s.current_task.to_remove /\ s.current_task.task # nullptr
                  THEN <<s.current_task.task>> \o s.runqueue
                  ELSE s.runqueue
             p == pop(q)
         IN  [s |-> [runqueue |-> p.q,
                     current_task |-> [task |-> p.ret, to_remove |-> FALSE]],
              ret |-> p.ret]

\* select_next_task(current): [s, ret]; the argument is not used
select_next_task(s) ==
    IF empty(s.runqueue)
    THEN LET c == IF s.current_task.to_remove
                  THEN [task |-> nullptr, to_remove |-> FALSE]
                  ELSE s.current_task
         IN  [s |-> [s EXCEPT !.current_task = c], ret |-> c.task]
    ELSE LET q == IF ~s.current_task.to_remove /\ s.current_task.task # nullptr
                  THEN enqueue(s.runqueue, s.current_task.task)
                  ELSE s.runqueue
             p == pop(q)
         IN  [s |-> [runqueue |-> p.q,
                     current_task |-> [task |-> p.ret, to_remove |-> FALSE]],
              ret |-> p.ret]

\* ----------------------------------------------------------------- state
VARIABLES
    free_list,   \* free_list_[0 .. LastOrder]: head page of each order, or nullptr
    next_free,   \* the next_free word at the start of every page frame
    halted,      \* an assertion has failed and the kernel has stopped
    failed,      \* the assertion that failed, "none" while the kernel runs
    allocated,   \* blocks <<pfn, order>> returned by allocate_pages and not yet freed
    op,          \* the last call: its name, arguments and return value
    ncalls,      \* public allocator calls made since construction, counted up to 2
    before,      \* the free lists as they were before the last allocate_pages
    runqueue,    \* round_robin::runqueue: the tasks waiting, head first
    current_task,\* round_robin::current_task: [task, to_remove]
    sop,         \* the last scheduler call: its name, its task and its return value
    removed,     \* tasks remove_from_runqueue was called on and add_to_runqueue was
                 \* not called on since, each with whether it was running then
    disciplined, \* every add_to_runqueue so far was for a task that was neither
                 \* waiting nor running
    nsel,        \* select_next_task calls made in a rotation, counted to MaxSelects
    enq          \* the run queue as it stood at the first of them

alloc_vars == <<LastOrder, free_list, next_free, halted, failed, allocated, op, ncalls, before>>

sched_vars == <<runqueue, current_task, sop, removed, disciplined, nsel, enq>>

vars == <<LastOrder, free_list, next_free, halted, failed, allocated, op, ncalls, before,
          runqueue, current_task, sop, removed, disciplined, nsel, enq>>

Heap == [fl |-> free_list, nf |-> next_free, halted |-> halted, failed |-> failed]

\* ------------------------------------------------------- views of a heap
\* the chain of free_list_[order] from page p on, following at most n links
RECURSIVE Chain(_, _, _)
Chain(h, p, n) ==
    IF p = nullptr \/ n = 0 THEN <<>>
    ELSE <<p>> \o Chain(h, h.nf[p], n - 1)

\* the PFNs of free_list_[order], head first
ListOf(h, order) == Chain(h, h.fl[order], MemPages + 1)

ListsOf(h) == [o \in Orders |-> ListOf(h, o)]

Lists == ListsOf(Heap)

NoLists == [o \in Orders |-> <<>>]

Elems(seq) == {seq[i] : i \in 1 .. Len(seq)}

\* the pages of the block <<pfn, order>>
BlockPages(pfn, order) == pfn .. (pfn + pages_per_block(order) - 1)

\* the pages covered by the blocks of the free lists
FreePageSetOf(h) ==
    UNION {UNION {BlockPages(p, o) : p \in Elems(ListOf(h, o))} : o \in Orders}

FreePageSet == FreePageSetOf(Heap)

\* sum over orders k of list_length(k) * 2^k
RECURSIVE TotalFrom(_, _)
TotalFrom(h, k) ==
    IF k > LastOrder THEN 0
    ELSE Len(ListOf(h, k)) * pages_per_block(k) + TotalFrom(h, k + 1)

TotalFreeOf(h) == TotalFrom(h, 0)

TotalFree == TotalFreeOf(Heap)

AllocatedPageSet == UNION {BlockPages(b[1], b[2]) : b \in allocated}

\* ------------------------------------------------------------------ Init
\* The constructor sets every free_list_ head to nullptr (header, lines 15-21).
Call(name, a, b, ret, undo) == [name |-> name, a |-> a, b |-> b, ret |-> ret, undo |-> undo]

SchedCall(name, task, ret) == [name |-> name, task |-> task, ret |-> ret]

InitBuilt(last_order) ==
    /\ LastOrder = last_order
    /\ free_list = [o \in Orders |-> nullptr]
    /\ next_free = [p \in Frames |-> nullptr]
    /\ halted = FALSE
    /\ failed = "none"
    /\ allocated = {}
    /\ op = Call("construct", 0, 0, nullptr, FALSE)
    /\ ncalls = 0
    /\ before = NoLists
    /\ runqueue = EmptySched.runqueue
    /\ current_task = EmptySched.current_task
    /\ sop = SchedCall("construct", nullptr, nullptr)
    /\ removed = {}
    /\ disciplined = TRUE
    /\ nsel = 0
    /\ enq = <<>>

Init == InitBuilt(LastOrderCalls)

\* The next_free word of a page outside the free lists is not the allocator's
\* (spec section 6: the allocator owns the first bytes of free pages only): the
\* state keeps nullptr for it, and what its owner left there is an input of the
\* next call.
Release(h) ==
    LET free == FreePageSetOf(h)
    IN  [p \in Frames |-> IF p \in free THEN h.nf[p] ELSE nullptr]

SetHeap(h) ==
    /\ free_list' = h.fl
    /\ next_free' = Release(h)
    /\ halted' = h.halted
    /\ failed' = h.failed

Count == ncalls' = IF ncalls < 2 THEN ncalls + 1 ELSE 2

\* The values of a page's first word that the allocator may tell from nullptr:
\* merge_buddies compares the word of the lower buddy with the address of the
\* higher one, so the values are the addresses of the page's higher buddies, of
\* whatever order.
Comparable(page) ==
    {q \in Pages : \E k \in 0 .. NumPages : q = get_buddy(k, page) /\ q > page}

\* What the owners of the pages outside the free lists left in their first
\* words before a call: nothing the allocator can tell from nullptr, or one
\* word that holds a page address.
NoWord == [page |-> nullptr, value |-> nullptr]

StaleWords ==
    {NoWord} \cup UNION {{[page |-> q, value |-> v] : v \in Comparable(q)} : q \in Pages}

\* the memory a call finds
Found(h, w) ==
    IF w.page = nullptr THEN h ELSE set_next_free(h, w.page, w.value)

\* --------------------------------------------------------------- actions
\* Caller discipline (spec section 6): an inserted range <<start, count>> holds
\* no page that is free or allocated out.
Insertable ==
    LET taken == FreePageSet \cup AllocatedPageSet
    IN  {r \in Pages \X (0 .. NumPages) :
            /\ r[1] + r[2] <= NumPages
            /\ (r[1] .. (r[1] + r[2] - 1)) \cap taken = {}}

\* the words a call can find: those of pages outside the free lists
StaleNow ==
    LET free == FreePageSet IN {w \in StaleWords : w.page \notin free}

InsertFreePages(range_start, page_count, w) ==
    /\ ~halted
    /\ UNCHANGED LastOrder
    /\ SetHeap(insert_free_pages(Found(Heap, w), range_start, page_count))
    /\ op' = Call("insert_free_pages", range_start, page_count, nullptr, FALSE)
    /\ Count
    /\ before' = NoLists
    /\ UNCHANGED allocated
    /\ UNCHANGED sched_vars

AllocatePages(order, zero) ==
    /\ ~halted
    /\ UNCHANGED LastOrder
    /\ LET r == allocate_pages(Heap, order, zero)
       IN  /\ SetHeap(r.h)
           /\ op' = Call("allocate_pages", order, 0, r.ret, FALSE)
           /\ allocated' = IF r.ret = nullptr THEN allocated
                           ELSE allocated \cup {<<r.ret, order>>}
           /\ before' = IF r.ret = nullptr THEN NoLists ELSE Lists
    /\ Count
    /\ UNCHANGED sched_vars

\* Caller discipline: only a block that is allocated out is freed, at its order.
FreePages(block_start, order, w) ==
    /\ ~halted
    /\ UNCHANGED LastOrder
    /\ <<block_start, order>> \in allocated
    /\ SetHeap(free_pages(Found(Heap, w), block_start, order))
    /\ LET undo == op.name = "allocate_pages" /\ op.ret = block_start /\ op.a = order
       IN  /\ op' = Call("free_pages", block_start, order, nullptr, undo)
           /\ before' = IF undo THEN before ELSE NoLists
    /\ allocated' = allocated \ {<<block_start, order>>}
    /\ Count
    /\ UNCHANGED sched_vars

Next ==
    \/ \E r \in Insertable : \E w \in StaleNow : InsertFreePages(r[1], r[2], w)
    \/ \E o \in -1 .. (LastOrder + 1) : \E z \in BOOLEAN : AllocatePages(o, z)
    \/ \E b \in allocated : \E w \in StaleNow : FreePages(b[1], b[2], w)

Spec == Init /\ [][Next]_vars

\* ------------------------------------------------------------------ boot
\* The first call after construction: the kernel hands the allocator a range
\* of the machine's page frames.  What the frames hold at that time is not the
\* allocator's; one of them may hold a page address in its first word.
BootRanges == {r \in Frames \X (0 .. MemPages) : r[1] + r[2] <= MemPages}

BootWords ==
    {NoWord} \cup
    UNION {{[page |-> q, value |-> v] :
                v \in {f \in Frames : \E k \in 0 .. MemPages : f = get_buddy(k, q) /\ f > q}} :
           q \in Frames}

BootInsert(range_start, page_count, w) ==
    /\ ncalls = 0
    /\ InsertFreePages(range_start, page_count, w)

NextBoot == \E r \in BootRanges : \E w \in BootWords : BootInsert(r[1], r[2], w)

InitBoot == InitBuilt(LastOrderBoot)

SpecBoot == InitBoot /\ [][NextBoot]_vars

\* ---------------------------------------------------------------- claims
\* the pages p .. p+n-1
Range(p, n) == p .. (p + n - 1)

\* C1: insert_free_pages(p, n), on a range with no free or allocated page,
\* registers exactly the pages [p, p+n) as free: the free pages grow by that
\* range and their total by n, also when n is 2^LastOrder or a multiple of it.
C1_InsertRegistersRange ==
    [][(op'.name = "insert_free_pages" /\ ~halted')
        => /\ FreePageSet' = FreePageSet \cup Range(op'.a, op'.b)
           /\ TotalFree' = TotalFree + op'.b]_vars

\* C2: on a freshly constructed allocator, after insert_free_pages(0, 2^LastOrder),
\* allocate_pages(0) returns PFN 0 and leaves exactly one block, at PFN 2^k, in
\* every order k < LastOrder and none in order LastOrder.
C2_SplitChainFromFresh ==
    [][(/\ ncalls = 1
        /\ op = Call("insert_free_pages", 0, 2 ^ LastOrder, nullptr, FALSE)
        /\ op'.name = "allocate_pages"
        /\ op'.a = 0)
        => /\ op'.ret = 0
           /\ Lists' = [k \in Orders |-> IF k < LastOrder THEN <<2 ^ k>> ELSE <<>>]]_vars

\* C3: no two buddies of an order n < LastOrder are listed together: for every
\* block at PFN p of free_list[n], the block at PFN p XOR 2^n is not in
\* free_list[n].
C3_NoFreeBuddies ==
    \A n \in 0 .. (LastOrder - 1) :
        \A p \in Elems(Lists[n]) : BitXor(p, 2 ^ n) \notin Elems(Lists[n])

\* free_pages has merged the freed block with its buddy
C3_Witness ==
    /\ op.name = "free_pages" /\ ~halted /\ op.b < LastOrder
    /\ op.a \notin Elems(Lists[op.b])
    /\ BitXor(op.a, 2 ^ op.b) \notin Elems(Lists[op.b])
    /\ op.a \in FreePageSet

\* C4: every free list is a null-terminated chain of strictly increasing PFNs
\* (so without duplicates or cycles).
C4_SortedLists ==
    \A o \in Orders :
        LET l == Lists[o]
        IN  /\ Len(l) <= NumPages
            /\ \A i \in 1 .. (Len(l) - 1) : l[i] < l[i + 1]
            /\ l # <<>> => next_free[l[Len(l)]] = nullptr

\* free_pages has put its block behind another one in the list of its order
C4_Witness ==
    /\ op.name = "free_pages" /\ ~halted
    /\ Len(Lists[op.b]) >= 2
    /\ Lists[op.b][Len(Lists[op.b])] = op.a

\* C5: every listed block of order n starts at a multiple of 2^n, and no call
\* stops on an alignment assertion: the blocks insert_free_pages carves from a
\* range are aligned to the order they are inserted at.
C5_AlignedBlocks ==
    /\ \A n \in Orders : \A p \in Elems(Lists[n]) : p % (2 ^ n) = 0
    /\ failed # "block_aligned"

\* insert_free_pages has carved a block of two or more pages out of a range
\* that starts at an odd PFN
C5_Witness ==
    /\ op.name = "insert_free_pages" /\ ~halted
    /\ op.a % 2 = 1
    /\ \E n \in 1 .. LastOrder : \E p \in Elems(Lists[n]) :
          BlockPages(p, n) \subseteq Range(op.a, op.b)

\* C6: allocate_pages(order) returns null if and only if order is outside
\* [0, LastOrder] or every free list of an order >= the requested one is empty.
C6_NullIffNoBlock ==
    [][op'.name = "allocate_pages"
        => (op'.ret = nullptr
              <=> \/ op'.a \notin Orders
                  \/ \A k \in op'.a .. LastOrder : free_list[k] = nullptr)]_vars

\* allocate_pages has returned null for an order in range while a smaller
\* block is free (a block that cannot serve the request)
C6_Witness ==
    /\ op.name = "allocate_pages" /\ op.ret = nullptr
    /\ op.a \in 1 .. LastOrder
    /\ \E k \in 0 .. (op.a - 1) : free_list[k] # nullptr

\* C7: when allocate_pages(order) returns a page, its PFN is a multiple of
\* 2^order, no listed block overlaps the returned block afterwards, and the
\* total of free pages has gone down by exactly 2^order.
C7_AllocTakesBlock ==
    [][(op'.name = "allocate_pages" /\ op'.ret # nullptr)
        => /\ op'.ret % (2 ^ op'.a) = 0
           /\ BlockPages(op'.ret, op'.a) \cap FreePageSet' = {}
           /\ FreePageSet' = FreePageSet \ BlockPages(op'.ret, op'.a)
           /\ TotalFree' = TotalFree - 2 ^ op'.a]_vars

\* allocate_pages has returned a block obtained by splitting: the other halves
\* are listed below a higher order
C7_Witness ==
    /\ op.name = "allocate_pages" /\ op.ret # nullptr /\ op.a < LastOrder
    /\ (op.ret + 2 ^ op.a) \in Elems(Lists[op.a])
    /\ before[op.a] = <<>>

\* C8: free_pages(b, order) right after the allocate_pages(order) that returned
\* b restores the free lists of every order exactly to what they were before
\* the allocation.
C8_AllocFreeRestores ==
    (op.name = "free_pages" /\ op.undo) => Lists = before

\* the allocation split a LastOrder block down to order 0 and the free has
\* merged it back
C8_Witness ==
    /\ op.name = "free_pages" /\ op.undo /\ ~halted
    /\ op.b = 0
    /\ before[LastOrder] # <<>>
    /\ \A k \in 0 .. (LastOrder - 1) : before[k] = <<>>
    /\ Lists = before

\* the decompositions of a set of pages into order-aligned blocks <<pfn, order>>
RECURSIVE Decomps(_)
Decomps(S) ==
    IF S = {} THEN {{}}
    ELSE LET m == CHOOSE x \in S : \A y \in S : x <= y
         IN  UNION {{D \cup {<<m, k>>} : D \in Decomps(S \ BlockPages(m, k))} :
                    k \in {j \in Orders : m % (2 ^ j) = 0 /\ BlockPages(m, j) \subseteq S}}

\* the orders in which the blocks of D can be freed
RECURSIVE Perms(_)
Perms(D) ==
    IF D = {} THEN {<<>>}
    ELSE UNION {{<<b>> \o t : t \in Perms(D \ {b})} : b \in D}

\* free_pages on each block of a sequence in turn
RECURSIVE FreeAll(_, _)
FreeAll(h, seq) ==
    IF seq = <<>> THEN h
    ELSE FreeAll(free_pages(h, seq[1][1], seq[1][2]), Tail(seq))

\* C9: insert_free_pages(p, n) leaves the free lists as freeing the blocks of
\* any decomposition of [p, p+n) into order-aligned blocks does, in any order.
C9_InsertEqualsFrees ==
    [][(op'.name = "insert_free_pages" /\ ~halted')
        => \A D \in Decomps(Range(op'.a, op'.b)) : \A seq \in Perms(D) :
              Lists' = ListsOf(FreeAll(Heap, seq))]_vars

\* the base of the order-(n+1) block that holds the order-n block at b
MergedBase(b, n) == (b \div (2 ^ (n + 1))) * (2 ^ (n + 1))

\* C10: free_pages(b, n) for n < LastOrder with the buddy of b listed in
\* free_list[n] gives the free lists obtained by taking the buddy out of
\* free_list[n] and calling free_pages(b AND NOT 2^n, n+1).
C10_MergeEqualsFreeAbove ==
    [][(/\ op'.name = "free_pages"
        /\ op'.b < LastOrder
        /\ BitXor(op'.a, 2 ^ op'.b) \in Elems(Lists[op'.b]))
        => Lists' = ListsOf(free_pages(
                        remove_free_block(Heap, op'.b, BitXor(op'.a, 2 ^ op'.b)),
                        MergedBase(op'.a, op'.b), op'.b + 1))]_vars

\* free_pages has merged its block with the listed buddy: the block that
\* holds both is in the list one order up
C10_Witness ==
    /\ op.name = "free_pages" /\ ~halted /\ op.b < LastOrder
    /\ MergedBase(op.a, op.b) \in Elems(Lists[op.b + 1])

\* ---------------------------------------------------------------- misuse
\* Callers that break the discipline in one of the ways the allocator is
\* specified to detect (spec section 7): free_pages with an order outside
\* 0 .. LastOrder, with a block that is not aligned to the order, or with a
\* block that is listed at that order already.
Detectable ==
    {c \in Pages \X (-1 .. (LastOrder + 1)) :
        \/ c[2] \notin Orders
        \/ ~block_aligned(c[2], c[1])
        \/ c[1] \in Elems(Lists[c[2]])}

FreePagesUnchecked(block_start, order, w) ==
    /\ ~halted
    /\ UNCHANGED LastOrder
    /\ SetHeap(free_pages(Found(Heap, w), block_start, order))
    /\ op' = Call("free_pages", block_start, order, nullptr, FALSE)
    /\ before' = NoLists
    /\ allocated' = allocated \ {<<block_start, order>>}
    /\ Count
    /\ UNCHANGED sched_vars

NextMisuse ==
    \/ Next
    \/ \E c \in Detectable : \E w \in StaleNow : FreePagesUnchecked(c[1], c[2], w)

SpecMisuse == Init /\ [][NextMisuse]_vars

\* ------------------------------------------------------ scheduler calls
Sched == [runqueue |-> runqueue, current_task |-> current_task]

SetSched(s) ==
    /\ runqueue' = s.runqueue
    /\ current_task' = s.current_task

Queued == Elems(runqueue)

\* Any task may be added, also one that waits or runs already: add_to_runqueue
\* enqueues whatever it is given.
AddToRunqueue(tcb) ==
    /\ SetSched(add_to_runqueue(Sched, tcb))
    /\ sop' = SchedCall("add_to_runqueue", tcb, nullptr)
    /\ removed' = {r \in removed : r.task # tcb}
    /\ disciplined' = (disciplined /\ tcb \notin Queued /\ tcb # current_task.task)
    /\ UNCHANGED alloc_vars

\* Any task may be removed.  For a task that neither waits nor runs the
\* specification leaves the outcome open (section 7); runqueue.remove finds
\* nothing to take out.
RemoveFromRunqueue(tcb) ==
    /\ SetSched(remove_from_runqueue(Sched, tcb))
    /\ sop' = SchedCall("remove_from_runqueue", tcb, nullptr)
    /\ removed' = IF tcb \in Queued \/ tcb = current_task.task
                  THEN {r \in removed : r.task # tcb}
                         \cup {[task |-> tcb, running |-> tcb = current_task.task]}
                  ELSE removed
    /\ UNCHANGED disciplined
    /\ UNCHANGED alloc_vars

SelectNextTask ==
    /\ LET r == select_next_task(Sched)
       IN  /\ SetSched(r.s)
           /\ sop' = SchedCall("select_next_task", nullptr, r.ret)
    /\ UNCHANGED <<removed, disciplined>>
    /\ UNCHANGED alloc_vars

\* the scheduler under any calls of its three operations
NextRR ==
    \/ \E t \in Tasks :
          Len(runqueue) < MaxQueue /\ AddToRunqueue(t) /\ UNCHANGED <<nsel, enq>>
    \/ \E t \in Tasks : RemoveFromRunqueue(t) /\ UNCHANGED <<nsel, enq>>
    \/ SelectNextTask /\ UNCHANGED <<nsel, enq>>

SpecRR == Init /\ [][NextRR]_vars

\* The scheduler under repeated scheduling points: the timer interrupt keeps
\* calling select_next_task, so a call that would change something is made in
\* the end.
SpecRRFair ==
    /\ Init
    /\ [][NextRR]_vars
    /\ WF_vars(SelectNextTask /\ UNCHANGED <<nsel, enq>>)

\* a rotation: tasks are added to an idle scheduler, then select_next_task is
\* called again and again with no add_to_runqueue or remove_from_runqueue
AddBeforeRotation(tcb) ==
    /\ nsel = 0
    /\ Len(runqueue) < NumTasks
    /\ AddToRunqueue(tcb)
    /\ UNCHANGED <<nsel, enq>>

SelectInRotation ==
    /\ nsel < MaxSelects
    /\ SelectNextTask
    /\ nsel' = nsel + 1
    /\ enq' = IF nsel = 0 THEN runqueue ELSE enq

NextRotate ==
    \/ \E t \in Tasks : AddBeforeRotation(t)
    \/ SelectInRotation

SpecRotate == Init /\ [][NextRotate]_vars

\* the listed free blocks <<pfn, order>>
FreeBlocks == UNION {{<<p, o>> : p \in Elems(Lists[o])} : o \in Orders}

\* the boot-time call of the decomposition scenario has been made
BootCall3And10 ==
    ncalls = 1 /\ op = Call("insert_free_pages", 3, 10, nullptr, FALSE)

C12_AllocOutOfRange ==
    [][(op'.name = "allocate_pages" /\ op'.a \notin Orders)
        => /\ op'.ret = nullptr
           /\ ~halted'
           /\ free_list' = free_list
           /\ next_free' = next_free]_vars

\* allocate_pages(LastOrder + 1) has been called with blocks free and blocks
\* allocated out
C12_Witness ==
    /\ op.name = "allocate_pages" /\ op.a = LastOrder + 1
    /\ FreePageSet # {} /\ allocated # {}

\* the lowest order above t whose free list is not empty; LastOrder + 1 if none
LowestAbove(t) ==
    LET S == {k \in (t + 1) .. LastOrder : Lists[k] # <<>>}
    IN  IF S = {} THEN LastOrder + 1 ELSE CHOOSE k \in S : \A j \in S : k <= j

\* C19: allocate_pages(t) that returns a block returns the lowest-PFN block of
\* free_list[t] when that list is not empty and only that list loses it;
\* otherwise it returns the base B of the head of the lowest non-empty order
\* m > t, free_list[m] loses that head, every order k in t .. m-1 gains exactly
\* the block at B + 2^k, and the other lists stay as they were.  From a single
\* block of order LastOrder, allocate_pages(0) leaves one block in each order
\* below LastOrder.
C19_AllocChoosesAndSplits ==
    [][(op'.name = "allocate_pages" /\ op'.a \in Orders /\ op'.ret # nullptr)
        => LET t == op'.a
               m == LowestAbove(t)
           IN  /\ ~halted'
               /\ IF Lists[t] # <<>>
                  THEN /\ op'.ret = Lists[t][1]
                       /\ \A p \in Elems(Lists[t]) : op'.ret <= p
                       /\ Lists' = [Lists EXCEPT ![t] = Tail(Lists[t])]
                  ELSE /\ m <= LastOrder
                       /\ op'.ret = Lists[m][1]
                       /\ \A p \in Elems(Lists[m]) : op'.ret <= p
                       /\ \A k \in Orders :
                            Lists'[k] = IF k = m THEN Tail(Lists[m])
                                        ELSE IF k >= t /\ k < m
                                        THEN <<op'.ret + 2 ^ k>>
                                        ELSE Lists[k]
               /\ (t = 0 /\ FreeBlocks = {<<op'.ret, LastOrder>>})
                    => FreeBlocks' = {<<op'.ret + 2 ^ k, k>> : k \in 0 .. (LastOrder - 1)}]_vars

\* allocate_pages has split a block two orders above the requested one: each of
\* the two orders below it holds a block now
C19_Witness ==
    /\ op.name = "allocate_pages" /\ op.ret # nullptr /\ ~halted
    /\ op.a + 2 <= LastOrder
    /\ before[op.a] = <<>> /\ before[op.a + 1] = <<>>
    /\ Lists[op.a] # <<>> /\ Lists[op.a + 1] # <<>>

\* C20: no page is handed out twice: the listed free blocks are pairwise
\* disjoint, no listed block overlaps a block that is allocated out, and no two
\* blocks that are allocated out overlap.
C20_NoPageTwice ==
    /\ \A f, g \in FreeBlocks :
          f # g => BlockPages(f[1], f[2]) \cap BlockPages(g[1], g[2]) = {}
    /\ TotalFree = Cardinality(FreePageSet)
    /\ \A f \in FreeBlocks : \A a \in allocated :
          BlockPages(f[1], f[2]) \cap BlockPages(a[1], a[2]) = {}
    /\ \A a, b \in allocated :
          a # b => BlockPages(a[1], a[2]) \cap BlockPages(b[1], b[2]) = {}

\* allocate_pages has split a block while another block was allocated out, and
\* free blocks remain
C20_Witness ==
    /\ op.name = "allocate_pages" /\ op.ret # nullptr /\ ~halted
    /\ before[op.a] = <<>>
    /\ Cardinality(allocated) >= 2
    /\ Cardinality(FreeBlocks) >= 2

\* C13: free_pages(block, order) with an order outside 0 .. LastOrder, or with
\* a block whose PFN is not a multiple of 2^order, halts the kernel on the
\* order assertion, respectively the alignment assertion, with every free-list
\* head and every next_free word as it was.
C13_BadFreeHalts ==
    [][(op'.name = "free_pages"
        /\ (op'.b \notin Orders \/ op'.a % (2 ^ op'.b) # 0))
        => /\ halted'
           /\ failed' = IF op'.b \notin Orders THEN "order" ELSE "block_aligned"
           /\ free_list' = free_list
           /\ next_free' = next_free]_vars

\* free_pages has been called on a misaligned block while blocks were listed,
\* and the kernel has halted
C13_Witness ==
    /\ op.name = "free_pages" /\ op.b \in Orders /\ op.a % (2 ^ op.b) # 0
    /\ halted /\ FreePageSet # {}

\* C14: in every reachable state, free_pages(b, n) for a block b listed in
\* free_list[n] halts on the get_slot assertion with the lists as they were,
\* and taking a block out of a list that does not hold it (remove_free_block,
\* remove_buddies) halts on the get_candidate_slot assertion with the heap as
\* it was; no list ever holds a block twice.
C14_DoubleFreeHalts ==
    /\ \A n \in Orders : Cardinality(Elems(Lists[n])) = Len(Lists[n])
    /\   /\ \A n \in Orders : \A b \in Elems(Lists[n]) : \A w \in StaleNow :
              LET h == free_pages(Found([Heap EXCEPT !.halted = FALSE], w), b, n)
              IN  /\ h.halted /\ h.failed = "get_slot"
                  /\ h.fl = free_list /\ ListsOf(h) = Lists
         /\ \A n \in Orders : \A b \in Pages :
              (b % (2 ^ n) = 0 /\ b \notin Elems(Lists[n])) =>
                 LET h0 == [Heap EXCEPT !.halted = FALSE]
                     h1 == remove_free_block(h0, n, b)
                 IN  /\ h1.halted /\ h1.failed = "get_candidate_slot"
                     /\ h1.fl = free_list /\ h1.nf = next_free
                     /\ \A h2 \in remove_buddies(h0, n, b) :
                          /\ h2.halted /\ h2.failed = "get_candidate_slot"
                          /\ h2.fl = free_list /\ h2.nf = next_free

\* free_pages has been called on a block that was listed at that order, and
\* the kernel has halted on the get_slot assertion with the block still listed
C14_Witness ==
    /\ op.name = "free_pages" /\ halted /\ failed = "get_slot"
    /\ op.b \in Orders /\ op.a \in Elems(Lists[op.b])

\* the test of merge_buddies on the candidate block at `buddy`:
\* get_next_free(first) == second
MergeTest(h, order, buddy) ==
    LET buddy2 == get_buddy(order, buddy)
        first == IF buddy < buddy2 THEN buddy ELSE buddy2
        second == IF buddy < buddy2 THEN buddy2 ELSE buddy
    IN  get_next_free(h, first) = second

\* the scan of free_list[order] for the buddy of the candidate block
BuddyListed(h, order, buddy) == get_buddy(order, buddy) \in Elems(ListOf(h, order))

\* the loop of iterative_merge, with the test compared to the scan at every
\* order it reaches
RECURSIVE MergeAgrees(_, _, _)
MergeAgrees(h, order, buddy_ptr) ==
    IF h.halted \/ buddy_ptr = nullptr \/ order >= LastOrder THEN TRUE
    ELSE /\ MergeTest(h, order, buddy_ptr) <=> BuddyListed(h, order, buddy_ptr)
         /\ LET m == merge_buddies(h, order, buddy_ptr)
            IN  MergeAgrees(m.h, order + 1, m.ret)

\* C18: in every free_pages call the callers can make (a block allocated out,
\* freed at its order, whatever the pages outside the free lists hold), the
\* test first.next_free == second succeeds at every order the merge loop
\* reaches exactly when the buddy is listed in the free list of that order.
C18_MergeTestAgreesWithScan ==
    ~halted =>
        \A a \in allocated : \A w \in StaleNow :
            MergeAgrees(insert_free_block(Found(Heap, w), a[2], a[1]), a[2], a[1])

\* C15: with no running task and the tasks T1 .. Tk added in that order, and no
\* add_to_runqueue or remove_from_runqueue after the first select_next_task,
\* the n-th select_next_task returns T((n-1) mod k + 1) and leaves it running
\* with the other tasks waiting in their cyclic order behind it: the task that
\* ran before is at the tail.
C15_RoundRobinRotation ==
    (sop.name = "select_next_task" /\ enq # <<>>) =>
        LET k == Len(enq)
            T(i) == enq[((nsel - 1 + i) % k) + 1]
        IN  /\ sop.ret = T(0)
            /\ current_task = [task |-> T(0), to_remove |-> FALSE]
            /\ runqueue = [i \in 1 .. (k - 1) |-> T(i)]

\* select_next_task has gone round all the tasks once and has returned the
\* first one again
C15_Witness ==
    /\ sop.name = "select_next_task"
    /\ Len(enq) = NumTasks /\ nsel = NumTasks + 1
    /\ sop.ret = enq[1]

\* C16: select_next_task never returns a task on which remove_from_runqueue was
\* called, while it was running or waiting, without add_to_runqueue since; when
\* the running task is the one removed and tasks wait, the call returns the
\* head of the queue and leaves the rest of it waiting, the running task not
\* among them.
C16_RemovedNotSelected ==
    [][sop'.name = "select_next_task"
        => /\ sop'.ret \notin {r.task : r \in removed'}
           /\ (current_task.to_remove /\ runqueue # <<>>)
                => /\ sop'.ret = Head(runqueue)
                   /\ runqueue' = Tail(runqueue)]_vars

\* C17: select_next_task on an empty run queue with to_remove set returns null
\* and leaves the current-task slot null and to_remove clear; a task added to
\* the idle scheduler is returned by the select_next_task that follows.
C17_LastTaskRemoved ==
    [][sop'.name = "select_next_task"
        => /\ (runqueue = <<>> /\ current_task.to_remove)
                => /\ sop'.ret = nullptr
                   /\ current_task' = [task |-> nullptr, to_remove |-> FALSE]
                   /\ runqueue' = <<>>
           /\ (/\ sop.name = "add_to_runqueue"
               /\ current_task = [task |-> nullptr, to_remove |-> FALSE]
               /\ runqueue = <<sop.task>>)
                => /\ sop'.ret = sop.task
                   /\ current_task' = [task |-> sop.task, to_remove |-> FALSE]]_vars

\* select_next_task has returned null after the last task was removed while
\* running: the scheduler is idle
C17_Witness ==
    /\ sop.name = "select_next_task" /\ sop.ret = nullptr
    /\ \E r \in removed : r.running
    /\ current_task = [task |-> nullptr, to_remove |-> FALSE]
    /\ runqueue = <<>>

\* C21: insert_free_pages(p, n) on a range that holds no free and no allocated
\* page returns without failing an assertion: no order out of range, no
\* misaligned block, no block inserted twice, no block taken from a list that
\* does not hold it.
C21_InsertNeverHalts ==
    [][op'.name = "insert_free_pages" => (~halted' /\ failed' = "none")]_vars

\* the tasks that run or wait
Runnable == Queued \cup ({current_task.task} \ {nullptr})

\* C22: select_next_task with to_remove clear loses no task: the running task
\* and the waiting tasks are the same set before and after; with an empty queue
\* the running task is returned again and nothing changes; otherwise the head
\* of the queue runs and is returned, the tasks behind it keep their order and
\* the task that ran is behind them at the tail.
C22_SelectKeepsRunnable ==
    [][(sop'.name = "select_next_task" /\ ~current_task.to_remove)
        => /\ Runnable' = Runnable
           /\ IF runqueue = <<>>
              THEN /\ sop'.ret = current_task.task
                   /\ current_task' = current_task
                   /\ runqueue' = runqueue
              ELSE /\ sop'.ret = Head(runqueue)
                   /\ current_task' = [task |-> Head(runqueue), to_remove |-> FALSE]
                   /\ runqueue' = Tail(runqueue) \o
                                    (IF current_task.task # nullptr
                                     THEN <<current_task.task>> ELSE <<>>)]_vars

\* select_next_task has returned a task with every task running or waiting:
\* the task that ran before waits behind the others
C22_Witness ==
    /\ sop.name = "select_next_task" /\ sop.ret # nullptr
    /\ Len(runqueue) = NumTasks - 1
    /\ removed = {}

\* C23: with add_to_runqueue called only for a task that is neither waiting
\* nor running, the run queue holds no task twice and never holds the running
\* task, and to_remove is set only while current_task.task is not null.
C23_QueueWellFormed ==
    disciplined =>
        /\ Cardinality(Queued) = Len(runqueue)
        /\ current_task.task \notin Queued
        /\ current_task.to_remove => current_task.task # nullptr

\* the running task has been removed while other tasks wait, after a task was
\* taken out of the queue
C23_Witness ==
    /\ disciplined
    /\ current_task.to_remove /\ runqueue # <<>>
    /\ \E r \in removed : ~r.running

\* the tasks remove_from_runqueue was called on, add_to_runqueue not since
Removed == {r.task : r \in removed}

\* C24: a task T waiting with k tasks ahead of it is returned within k + 1
\* select_next_task calls unless it is removed first: a select_next_task call
\* returns T when no task is ahead of it and otherwise leaves it waiting with
\* one task less ahead, and no add_to_runqueue and no removal of another task
\* puts a task ahead of it; with select_next_task called again and again every
\* waiting task is returned or removed in the end.
C24_NoStarvation ==
    /\ [][\A i \in 1 .. Len(runqueue) :
            LET T == runqueue[i]
            IN  IF sop'.name = "select_next_task"
                THEN IF i = 1 THEN sop'.ret = T
                     ELSE runqueue'[i - 1] = T
                ELSE (sop'.name = "remove_from_runqueue" /\ sop'.task = T)
                     \/ \E j \in 1 .. i : j <= Len(runqueue') /\ runqueue'[j] = T]_vars
    /\ \A T \in Tasks :
          (T \in Queued) ~> ((sop.name = "select_next_task" /\ sop.ret = T)
                              \/ T \in Removed)

\* select_next_task has returned a task while another task waits, after a
\* waiting task was taken out of the queue
C24_Witness ==
    /\ sop.name = "select_next_task" /\ sop.ret # nullptr
    /\ \E r \in removed : ~r.running
    /\ runqueue # <<>> /\ ~current_task.to_remove
====
